---------------------------- MODULE Spec2Model ----------------------------
(***************************************************************************)
(* Model of the Wyoming radiosounding downloader                           *)
(*   src/wyoming_sounding_downloader_2025_11_25_v02_LB.py                  *)
(*   src/batch_to_download_extended_data_2025_11_25_v01_LB.py              *)
(*                                                                         *)
(* A Python str is modelled as a sequence of lexical units.  A unit is a   *)
(* one-character string, or one of the fixed multi-character pieces the    *)
(* program searches for (the lines of the header marker, the end marker,   *)
(* the heading tags, an HTML character reference).  Python indices are     *)
(* 0-based and are kept 0-based here; -1 is str.find's "not found".        *)
(***************************************************************************)
EXTENDS Integers, Sequences, FiniteSets, TLC

VARIABLES
    pc,            \* position of the running call
    raw_html,      \* the document handed to the function under study
    station_id,    \* caller-supplied station identifier
    sep_char,      \* the separator, "," or "\t"
    outdir,        \* fetch_sounding: the outdir argument, or None
    lines,         \* List[str]: extract_block's result / the input lines
    error,         \* the exception that reached the caller, or NoError
    content,       \* normalize_lines' result
    raw_name,      \* extract_station_name: the name candidate before sanitizing
    station_name,  \* extract_station_name's result
    idx,           \* parse_profiles: number of input lines consumed
    pressures,     \* parse_profiles: the three output lists
    heights,
    temps,
    dirs,          \* file system: directories that exist
    files,         \* file system: the files written, as <<path, text>>
    args,          \* batch driver: [start_date, end_date, hours_str]
    hours,         \* batch driver: parse_hours' result
    loop,          \* batch driver: [i, j], the day and hour the loops are at
    calls,         \* batch driver: fetch_sounding calls made, with outcome
    failures,      \* batch driver: the failures list
    ret            \* batch driver: main's return value, or NoRet

inputVars == <<raw_html, station_id, sep_char, outdir>>
nameVars == <<raw_name, station_name>>
profVars == <<idx, pressures, heights, temps>>
fsVars == <<dirs, files>>
batchVars == <<args, hours, loop, calls, failures, ret>>

vars == <<pc, inputVars, lines, error, content, nameVars, profVars, fsVars,
          batchVars>>

-----------------------------------------------------------------------------
(* Bounds of the model *)

MaxBody == 4
MaxLines == 2
MaxNormTokens == 2
MaxProfTokens == 4
MaxHeadTokens == 4
MaxHourTokens == 2
MaxDay == 1

-----------------------------------------------------------------------------
(* Characters *)

LF == "\n"
CR == "\r"
TAB == "\t"
SP == " "
NBSP == "nbsp"     \* U+00A0, which str.isspace() accepts

NoError == "NoError"
NoRet == -1

\* str.isspace() for one character (the characters of the model's alphabet)
isspace(c) == c \in {SP, TAB, LF, CR, NBSP}

-----------------------------------------------------------------------------
(* Python str operations, on sequences of units *)

\* s[a:b] for 0 <= a, with b clipped to len(s)
Slice(s, a, b) ==
    LET hi == IF b > Len(s) THEN Len(s) ELSE b
    IN  IF a >= hi THEN <<>> ELSE SubSeq(s, a + 1, hi)

\* s.startswith(sub, i)
StartsWithAt(s, sub, i) ==
    /\ i + Len(sub) <= Len(s)
    /\ \A k \in 1..Len(sub) : s[i + k] = sub[k]

RECURSIVE Find(_, _, _)
\* s.find(sub, start): the lowest index >= start where sub occurs, else -1
Find(s, sub, start) ==
    IF start + Len(sub) > Len(s) THEN -1
    ELSE IF StartsWithAt(s, sub, start) THEN start
    ELSE Find(s, sub, start + 1)

RECURSIVE Replace(_, _, _)
\* s.replace(old, new): left to right, non-overlapping; old is non-empty
Replace(s, old, new) ==
    IF s = <<>> THEN <<>>
    ELSE IF StartsWithAt(s, old, 0)
         THEN new \o Replace(Slice(s, Len(old), Len(s)), old, new)
         ELSE <<Head(s)>> \o Replace(Tail(s), old, new)

RECURSIVE SplitOn(_, _)
\* s.split(sep) for a one-character sep: always at least one piece
SplitOn(s, sep) ==
    LET k == Find(s, <<sep>>, 0)
    IN  IF k = -1 THEN <<s>>
        ELSE <<Slice(s, 0, k)>> \o SplitOn(Slice(s, k + 1, Len(s)), sep)

RECURSIVE LStrip(_)
LStrip(s) ==
    IF s # <<>> /\ isspace(Head(s)) THEN LStrip(Tail(s)) ELSE s

RECURSIVE RStrip(_)
RStrip(s) ==
    IF s # <<>> /\ isspace(s[Len(s)]) THEN RStrip(SubSeq(s, 1, Len(s) - 1)) ELSE s

\* s.strip()
Strip(s) == LStrip(RStrip(s))

RECURSIVE StripChar(_, _)
\* s.strip(c) for a one-character c
StripChar(s, c) ==
    IF s # <<>> /\ Head(s) = c THEN StripChar(Tail(s), c)
    ELSE IF s # <<>> /\ s[Len(s)] = c THEN StripChar(SubSeq(s, 1, Len(s) - 1), c)
    ELSE s

RECURSIVE RStripChar(_, _)
\* s.rstrip(c) for a one-character c
RStripChar(s, c) ==
    IF s # <<>> /\ s[Len(s)] = c THEN RStripChar(SubSeq(s, 1, Len(s) - 1), c) ELSE s

RECURSIVE TakeWord(_)
\* the leading run of non-whitespace characters
TakeWord(s) ==
    IF s = <<>> \/ isspace(Head(s)) THEN <<>> ELSE <<Head(s)>> \o TakeWord(Tail(s))

RECURSIVE Split(_)
\* s.split(): split on runs of whitespace, no empty pieces
Split(s) ==
    LET t == LStrip(s)
        w == TakeWord(t)
    IN  IF t = <<>> THEN <<>>
        ELSE <<w>> \o Split(Slice(t, Len(w), Len(t)))

RECURSIVE Join(_, _)
\* sep.join(parts), sep a sequence of units
Join(parts, sep) ==
    IF parts = <<>> THEN <<>>
    ELSE IF Len(parts) = 1 THEN parts[1]
    ELSE parts[1] \o sep \o Join(Tail(parts), sep)

\* all sequences over S of length at most n
SeqsUpTo(S, n) == UNION {[1..m -> S] : m \in 0..n}

-----------------------------------------------------------------------------
(* Module constants *)

BORDER == "-----------------------------------------------------------------------------"
NAMES  == "   PRES   HGHT   TEMP   DWPT   RELH   MIXR   DRCT   SKNT   THTA   THTE   THTV"
UNITS  == "    hPa     m      C      C      %    g/kg    deg   knot     K      K      K "

START_MARKER == <<BORDER, LF, NAMES, LF, UNITS, LF, BORDER>>

END_MARKER == <<"</PRE><H3>Station information and sounding indices</H3><PRE>">>

-----------------------------------------------------------------------------
(* extract_block *)

Ok(v) == [ok |-> TRUE, val |-> v]
Raise(e) == [ok |-> FALSE, err |-> e]

HeaderNotFound == "Could not find the full Wyoming header block."
EndNotFound == "Could not find the station information section end marker."

\* a slip: the bare CR is replaced first, so CR+LF becomes two line breaks
NormalizeEndings_CRFirst(s) == Replace(Replace(s, <<CR>>, <<LF>>), <<CR, LF>>, <<LF>>)

\* raw_html.replace("\r\n", "\n").replace("\r", "\n")
NormalizeEndings(s) == Replace(Replace(s, <<CR, LF>>, <<LF>>), <<CR>>, <<LF>>)

RECURSIVE PopFront(_)
\* while lines and not lines[0].strip(): lines.pop(0)
PopFront(ls) ==
    IF ls # <<>> /\ Strip(Head(ls)) = <<>> THEN PopFront(Tail(ls)) ELSE ls

RECURSIVE PopBack(_)
\* while lines and not lines[-1].strip(): lines.pop()
PopBack(ls) ==
    IF ls # <<>> /\ Strip(ls[Len(ls)]) = <<>>
    THEN PopBack(SubSeq(ls, 1, Len(ls) - 1)) ELSE ls

\* a slip: the end marker is searched from the start of the text
extract_block_EndFromStart(raw) ==
    LET text == NormalizeEndings(raw)
        start_idx == Find(text, START_MARKER, 0)
        data_start == start_idx + Len(START_MARKER)
        end_idx == Find(text, END_MARKER, 0)
        sub == Slice(text, data_start, end_idx)
    IN  IF start_idx = -1 THEN Raise(HeaderNotFound)
        ELSE IF end_idx = -1 THEN Raise(EndNotFound)
        ELSE Ok(PopBack(PopFront(SplitOn(sub, LF))))

extract_block(raw) ==
    LET text == NormalizeEndings(raw)
        start_idx == Find(text, START_MARKER, 0)
        data_start == start_idx + Len(START_MARKER)
        end_idx == Find(text, END_MARKER, data_start)
        sub == Slice(text, data_start, end_idx)
    IN  IF start_idx = -1 THEN Raise(HeaderNotFound)
        ELSE IF end_idx = -1 THEN Raise(EndNotFound)
        ELSE Ok(PopBack(PopFront(SplitOn(sub, LF))))

-----------------------------------------------------------------------------
(* Documents given to extract_block *)

\* the header marker with each of its three line breaks written as e
MarkerWith(e1, e2, e3) == <<BORDER>> \o e1 \o <<NAMES>> \o e2 \o <<UNITS>> \o e3 \o <<BORDER>>

HdrPool ==
    { <<>>,
      START_MARKER,
      MarkerWith(<<CR, LF>>, <<CR, LF>>, <<CR, LF>>),
      MarkerWith(<<CR>>, <<CR>>, <<CR>>),
      MarkerWith(<<LF>>, <<CR, LF>>, <<CR>>),
      <<BORDER, LF, NAMES, LF, UNITS, LF>>,
      <<BORDER, LF, NAMES, LF, UNITS, BORDER>> }

PrePool == { <<>>, <<"x", LF>>, END_MARKER, <<BORDER, LF>> }

TailPool ==
    { <<>>,
      END_MARKER,
      <<CR, LF>> \o END_MARKER \o <<LF, "x">> \o END_MARKER,
      <<LF, "x">> }

BodyChars == {"x", SP, LF, CR}

BlockDocs ==
    { pre \o hdr \o body \o tl :
        pre \in PrePool, hdr \in HdrPool,
        body \in SeqsUpTo(BodyChars, MaxBody), tl \in TailPool }

-----------------------------------------------------------------------------
(* Specification of a call of extract_block *)

None == <<"None">>

\* the state of what a call does not use
NoName == raw_name = <<>> /\ station_name = <<>>
NoProfile == idx = 0 /\ pressures = <<>> /\ heights = <<>> /\ temps = <<>>
NoFiles == dirs = {} /\ files = {}
NoBatch ==
    /\ args = <<>> /\ hours = <<>> /\ loop = <<>>
    /\ calls = <<>> /\ failures = <<>> /\ ret = NoRet

InitBlock ==
    /\ pc = "extract_block"
    /\ raw_html \in BlockDocs
    /\ station_id = <<>> /\ sep_char = "," /\ outdir = None
    /\ lines = <<>> /\ error = NoError /\ content = <<>>
    /\ NoName /\ NoProfile /\ NoFiles /\ NoBatch

CallExtractBlock ==
    /\ pc = "extract_block"
    /\ LET r == extract_block(raw_html)
       IN  IF r.ok
           THEN /\ lines' = r.val
                /\ pc' = "returned"
                /\ UNCHANGED error
           ELSE /\ error' = r.err
                /\ pc' = "raised"
                /\ UNCHANGED lines
    /\ UNCHANGED <<inputVars, content, nameVars, profVars, fsVars, batchVars>>

NextBlock == CallExtractBlock

SpecBlock == InitBlock /\ [][NextBlock]_vars

-----------------------------------------------------------------------------
(* Claims about extract_block *)

RECURSIVE ULines(_)
\* the lines of s, where CR+LF, a bare CR and LF each end a line
ULines(s) ==
    LET brk == {k \in 1..Len(s) : s[k] \in {CR, LF}}
    IN  IF brk = {} THEN <<s>>
        ELSE LET k == CHOOSE x \in brk : \A y \in brk : x <= y
                 n == IF s[k] = CR /\ k < Len(s) /\ s[k + 1] = LF THEN 2 ELSE 1
             IN  <<SubSeq(s, 1, k - 1)>> \o ULines(SubSeq(s, k + n, Len(s)))

\* s with every line ending written as LF
UText(s) == Join(ULines(s), <<LF>>)

\* the 0-based offsets at which m occurs in t
Occ(t, m) ==
    {k \in 0..Len(t) : k + Len(m) <= Len(t) /\ SubSeq(t, k + 1, k + Len(m)) = m}

Least(S) == CHOOSE x \in S : \A y \in S : x <= y

\* offset just past the first header marker
HeaderEnd(t) == Least(Occ(t, START_MARKER)) + Len(START_MARKER)

\* the header marker occurs, and the end marker occurs at or after its end
HasBlock(t) ==
    /\ Occ(t, START_MARKER) # {}
    /\ \E e \in Occ(t, END_MARKER) : e >= HeaderEnd(t)

Blank(l) == \A k \in 1..Len(l) : isspace(l[k])

\* the lines between the first header marker and the first end marker after it
Between(t) ==
    LET s == HeaderEnd(t)
        e == Least({k \in Occ(t, END_MARKER) : k >= s})
    IN  ULines(SubSeq(t, s + 1, e))

\* ls is all with its leading and trailing blank lines removed, and nothing else
TrimmedOf(ls, all) ==
    \E a \in 0..Len(all) : \E b \in a..Len(all) :
        /\ ls = SubSeq(all, a + 1, b)
        /\ \A k \in 1..a : Blank(all[k])
        /\ \A k \in (b + 1)..Len(all) : Blank(all[k])
        /\ ls # <<>> => ~Blank(ls[1]) /\ ~Blank(ls[Len(ls)])

BlockCalled == pc \in {"returned", "raised"}

\* C1: a document whose header marker is absent, or whose end marker does not
\* occur at or after the end of the first header marker, makes extract_block
\* raise; no lines are returned.
C1_NoPartialBlock ==
    (BlockCalled /\ ~HasBlock(UText(raw_html))) =>
        /\ pc = "raised"
        /\ lines = <<>>
        /\ error = IF Occ(UText(raw_html), START_MARKER) = {}
                   THEN HeaderNotFound ELSE EndNotFound

\* the end marker occurs only before the header marker, and the call raised
C1_Witness ==
    /\ pc = "raised"
    /\ error = EndNotFound
    /\ Occ(UText(raw_html), START_MARKER) # {}
    /\ Occ(UText(raw_html), END_MARKER) # {}

\* C2: for a document holding the header marker followed by the end marker,
\* with any mix of LF, CR+LF and CR line endings, extract_block returns the
\* lines between the two markers, in order, without the leading and trailing
\* blank lines and with the interior blank lines; the first and the last
\* returned line are not blank.
C2_ExactBlock ==
    (BlockCalled /\ HasBlock(UText(raw_html))) =>
        /\ pc = "returned"
        /\ error = NoError
        /\ TrimmedOf(lines, Between(UText(raw_html)))

\* a document with CR line endings in its header, a blank line dropped at an
\* edge and a blank line kept in the interior
C2_Witness ==
    /\ pc = "returned"
    /\ \E k \in 1..Len(raw_html) : raw_html[k] = CR
    /\ Occ(raw_html, START_MARKER) = {}
    /\ Len(lines) = 3 /\ lines[2] = <<>>
    /\ Len(Between(UText(raw_html))) > 3

-----------------------------------------------------------------------------
(* normalize_lines *)

RECURSIVE OutLinesKeepBlank(_, _)
\* a slip: a blank line is emitted as an empty output line instead of skipped
OutLinesKeepBlank(ls, sep) ==
    IF ls = <<>> THEN <<>>
    ELSE <<Join(Split(RStripChar(Head(ls), LF)), <<sep>>)>>
             \o OutLinesKeepBlank(Tail(ls), sep)

RECURSIVE OutLines(_, _)
\* the loop of normalize_lines: out_lines after all of ls was read
OutLines(ls, sep) ==
    IF ls = <<>> THEN <<>>
    ELSE LET stripped == RStripChar(Head(ls), LF)
             parts == Split(stripped)
         IN  IF Strip(stripped) = <<>>
             THEN OutLines(Tail(ls), sep)
             ELSE <<Join(parts, <<sep>>)>> \o OutLines(Tail(ls), sep)

\* a slip: the tokens are joined with a blank, whatever the separator
normalize_lines_JoinBlank(ls, sep) ==
    Join(OutLines(ls, SP), <<LF>>) \o <<LF>>

\* "\n".join(out_lines) + "\n"
normalize_lines(ls, sep) ==
    Join(OutLines(ls, sep), <<LF>>) \o <<LF>>

-----------------------------------------------------------------------------
(* Input lines given to normalize_lines *)

NormTokens == { <<"a", "7">>, <<"b", ",", "c">> }

\* how a line is laid out: what precedes, separates and follows its tokens
Layouts ==
    { [lead |-> <<>>, gap |-> <<SP>>, trail |-> <<>>],
      [lead |-> <<SP>>, gap |-> <<TAB, SP>>, trail |-> <<SP, LF>>] }

LineOf(toks, lay) == lay.lead \o Join(toks, lay.gap) \o lay.trail

NormLinePool ==
    { LineOf(toks, lay) : toks \in SeqsUpTo(NormTokens, MaxNormTokens), lay \in Layouts }

Separators == {",", TAB}

-----------------------------------------------------------------------------
(* Specification of a call of normalize_lines *)

InitNorm ==
    /\ pc = "normalize_lines"
    /\ lines \in SeqsUpTo(NormLinePool, MaxLines)
    /\ sep_char \in Separators
    /\ raw_html = <<>> /\ station_id = <<>> /\ outdir = None
    /\ error = NoError /\ content = <<>>
    /\ NoName /\ NoProfile /\ NoFiles /\ NoBatch

CallNormalizeLines ==
    /\ pc = "normalize_lines"
    /\ content' = normalize_lines(lines, sep_char)
    /\ pc' = "normalized"
    /\ UNCHANGED <<inputVars, lines, error, nameVars, profVars, fsVars, batchVars>>

NextNorm == CallNormalizeLines

SpecNorm == InitNorm /\ [][NextNorm]_vars

-----------------------------------------------------------------------------
(* Claims about normalize_lines *)

\* the maximal runs of non-whitespace characters of l, as <<first, last>>
Runs(l) ==
    LET starts == {a \in 1..Len(l) : ~isspace(l[a]) /\ (a = 1 \/ isspace(l[a - 1]))}
        ends == {b \in 1..Len(l) : ~isspace(l[b]) /\ (b = Len(l) \/ isspace(l[b + 1]))}
    IN  {<<a, Least({b \in ends : b >= a})>> : a \in starts}

\* the whitespace-delimited tokens of l, in order
WordsOf(l) ==
    LET R == Runs(l)
    IN  [j \in 1..Cardinality(R) |->
            LET r == CHOOSE x \in R : Cardinality({y \in R : y[1] < x[1]}) = j - 1
            IN  SubSeq(l, r[1], r[2])]

\* the non-blank lines of ls, in order
NonBlank(ls) == SelectSeq(ls, LAMBDA l : ~Blank(l))

\* the output lines of a text made by joining lines with LF and adding one LF
TextLines(t) ==
    IF t = <<LF>> THEN <<>> ELSE SplitOn(SubSeq(t, 1, Len(t) - 1), LF)

\* one output line per non-blank input line, holding that line's tokens
OneLinePerInput ==
    LET nb == NonBlank(lines)
        out == TextLines(content)
    IN  /\ content # <<>> /\ content[Len(content)] = LF
        /\ Len(out) = Len(nb)
        /\ \A j \in 1..Len(nb) : out[j] = Join(WordsOf(nb[j]), <<sep_char>>)

\* (the statement of C3 as written) one output line per non-blank input line,
\* and splitting it on the separator gives back the tokens of the input line
C3_AsClaimed ==
    pc = "normalized" =>
        /\ OneLinePerInput
        /\ \A j \in 1..Len(NonBlank(lines)) :
              SplitOn(TextLines(content)[j], sep_char) = WordsOf(NonBlank(lines)[j])

\* C3 (amended): normalize_lines emits one output line per non-blank input
\* line, in order, made of that line's k tokens joined by the separator, and
\* nothing for a blank line; splitting the output line on the separator gives
\* back the k tokens when no token holds the separator.
C3_TokensJoined ==
    pc = "normalized" =>
        /\ OneLinePerInput
        /\ \A j \in 1..Len(NonBlank(lines)) :
              LET w == WordsOf(NonBlank(lines)[j])
              IN  (\A t \in 1..Len(w) : \A k \in 1..Len(w[t]) : w[t][k] # sep_char)
                     => SplitOn(TextLines(content)[j], sep_char) = w

\* a whitespace-only line dropped before a line of two tokens with wide gaps
C3_Witness ==
    /\ pc = "normalized"
    /\ Len(lines) = 2 /\ Blank(lines[1]) /\ lines[1] # <<>>
    /\ Len(WordsOf(lines[2])) = 2 /\ Len(lines[2]) > Len(content)
    /\ Len(TextLines(content)) = 1

\* C8: normalizing the lines of normalize_lines' output again, with the same
\* separator, gives the same text.
C8_Idempotent ==
    pc = "normalized" =>
        normalize_lines(SplitOn(content, LF), sep_char) = content

\* an input that the first pass changes: a blank line dropped, gaps rewritten
C8_Witness ==
    /\ pc = "normalized"
    /\ \E j \in 1..Len(lines) : Blank(lines[j])
    /\ \E j \in 1..Len(lines) : Len(WordsOf(lines[j])) = 2
    /\ content # Join(lines, <<LF>>) \o <<LF>>
    /\ sep_char = TAB

-----------------------------------------------------------------------------
(* float() and parse_profiles *)

Digits == {"0", "1", "2", "3", "4", "5", "6", "7", "8", "9"}

DigitVal(c) ==
    CASE c = "0" -> 0 [] c = "1" -> 1 [] c = "2" -> 2 [] c = "3" -> 3
      [] c = "4" -> 4 [] c = "5" -> 5 [] c = "6" -> 6 [] c = "7" -> 7
      [] c = "8" -> 8 [] c = "9" -> 9

RECURSIVE IntOf(_)
\* the value of a run of decimal digits ("" is 0)
IntOf(ds) ==
    IF ds = <<>> THEN 0
    ELSE 10 * IntOf(SubSeq(ds, 1, Len(ds) - 1)) + DigitVal(ds[Len(ds)])

RECURSIVE Reduce(_, _)
\* a decimal m / 10^d without trailing fractional zeros: 7.50 is 7.5
Reduce(m, d) ==
    IF d > 0 /\ m % 10 = 0 THEN Reduce(m \div 10, d - 1) ELSE <<m, d>>

\* float(tok) for a token of digits, ".", "+", "-" and other characters:
\* [sign] digits [. [digits]]  or  [sign] . digits; anything else raises
\* ValueError.  The value is the exact decimal <<mantissa, fraction digits>>.
float(tok) ==
    LET signed == tok # <<>> /\ Head(tok) \in {"+", "-"}
        body == IF signed THEN Tail(tok) ELSE tok
        dot == Find(body, <<".">>, 0)
        whole == IF dot = -1 THEN body ELSE Slice(body, 0, dot)
        frac == IF dot = -1 THEN <<>> ELSE Slice(body, dot + 1, Len(body))
        digits == whole \o frac
        m == IntOf(digits)
    IN  IF digits # <<>> /\ \A k \in 1..Len(digits) : digits[k] \in Digits
        THEN Ok(Reduce(IF signed /\ Head(tok) = "-" THEN -m ELSE m, Len(frac)))
        ELSE Raise("ValueError")

\* a slip: each value is appended as soon as it is converted, so a line whose
\* second or third field is not numeric leaves one or two values behind
ParseLinePartial(out, line) ==
    LET parts == Split(Strip(line))
        p == float(parts[1])
        z == float(parts[2])
        T == float(parts[3])
    IN  IF Strip(line) = <<>> \/ Len(parts) < 3 \/ ~p.ok THEN out
        ELSE IF ~z.ok THEN [out EXCEPT !.p = Append(@, p.val)]
        ELSE IF ~T.ok THEN [out EXCEPT !.p = Append(@, p.val), !.z = Append(@, z.val)]
        ELSE [p |-> Append(out.p, p.val), z |-> Append(out.z, z.val),
              T |-> Append(out.T, T.val)]

\* one iteration of parse_profiles' loop over the lines
ParseLine(out, line) ==
    LET s == Strip(line)
        parts == Split(s)
        p == float(parts[1])
        z == float(parts[2])
        T == float(parts[3])
    IN  IF s = <<>> THEN out
        ELSE IF Len(parts) < 3 THEN out
        ELSE IF ~(p.ok /\ z.ok /\ T.ok) THEN out
        ELSE [p |-> Append(out.p, p.val), z |-> Append(out.z, z.val),
              T |-> Append(out.T, T.val)]

RECURSIVE parse_profiles(_, _)
\* parse_profiles(lines), continued from the lists out
parse_profiles(out, ls) ==
    IF ls = <<>> THEN out ELSE parse_profiles(ParseLine(out, Head(ls)), Tail(ls))

-----------------------------------------------------------------------------
(* Input lines given to parse_profiles *)

Col1 == { <<"1", "0">>, <<"7", ".", "5", "0">>, <<"/", "/">> }
Col2 == { <<"2", ".">>, <<"-">> }
Col3 == { <<"-", ".", "5">>, <<".">> }
Placeholder == <<"/", "/", "/", "/", "/">>

\* a data line: three leading fields, then placeholder fields
ProfLinePool ==
    {<<>>} \cup
    { <<SP>> \o Join(SubSeq(<<a, b, c>> \o [j \in 1..MaxProfTokens |-> Placeholder], 1, k),
                     <<SP, SP>>) :
        a \in Col1, b \in Col2, c \in Col3, k \in 0..MaxProfTokens }

-----------------------------------------------------------------------------
(* Specification of a call of parse_profiles, one line at a time *)

InitProf ==
    /\ pc = "parse_profiles"
    /\ lines \in SeqsUpTo(ProfLinePool, MaxLines)
    /\ NoProfile
    /\ raw_html = <<>> /\ station_id = <<>> /\ sep_char = "," /\ outdir = None
    /\ error = NoError /\ content = <<>>
    /\ NoName /\ NoFiles /\ NoBatch

ParseNextLine ==
    /\ pc = "parse_profiles"
    /\ idx < Len(lines)
    /\ LET out == ParseLine([p |-> pressures, z |-> heights, T |-> temps],
                            lines[idx + 1])
       IN  /\ pressures' = out.p
           /\ heights' = out.z
           /\ temps' = out.T
    /\ idx' = idx + 1
    /\ UNCHANGED <<pc, inputVars, lines, error, content, nameVars, fsVars, batchVars>>

ParseReturn ==
    /\ pc = "parse_profiles"
    /\ idx = Len(lines)
    /\ pc' = "parsed"
    /\ UNCHANGED <<inputVars, lines, error, content, nameVars, profVars, fsVars,
                   batchVars>>

NextProf == ParseNextLine \/ ParseReturn

SpecProf == InitProf /\ [][NextProf]_vars

-----------------------------------------------------------------------------
(* Claims about parse_profiles *)

\* the first three tokens of l exist and all convert to numbers
ThreeNumbers(l) ==
    /\ Len(WordsOf(l)) >= 3
    /\ \A k \in 1..3 : float(WordsOf(l)[k]).ok

\* C4: after every line processed, the three lists hold exactly one triple
\* per line read so far whose first three tokens all convert, in line order,
\* the i-th elements of the three lists coming from the same line; a blank
\* line, a line of fewer than 3 tokens and a line with a non-numeric token
\* among the first three add nothing; the lists have equal length.
C4_TriplesAligned ==
    pc \in {"parse_profiles", "parsed"} =>
        LET good == SelectSeq(SubSeq(lines, 1, idx), ThreeNumbers)
        IN  /\ Len(pressures) = Len(good)
            /\ Len(heights) = Len(good)
            /\ Len(temps) = Len(good)
            /\ \A j \in 1..Len(good) :
                  /\ pressures[j] = float(WordsOf(good[j])[1]).val
                  /\ heights[j] = float(WordsOf(good[j])[2]).val
                  /\ temps[j] = float(WordsOf(good[j])[3]).val

\* a line whose third field is not numeric was skipped whole, and a line with
\* a placeholder in its fourth field gave a triple
C4_Witness ==
    /\ pc = "parsed"
    /\ Len(lines) = 2
    /\ Len(WordsOf(lines[1])) = 3
    /\ float(WordsOf(lines[1])[1]).ok /\ float(WordsOf(lines[1])[2]).ok
    /\ ~float(WordsOf(lines[1])[3]).ok
    /\ Len(WordsOf(lines[2])) = 4
    /\ pressures = <<<<75, 1>>>> /\ heights = <<<<2, 0>>>> /\ temps = <<<<-5, 1>>>>

-----------------------------------------------------------------------------
(* extract_station_name *)

H2_OPEN == <<"<", "H", "2", ">">>
H2_CLOSE == <<"<", "/", "H", "2", ">">>
h2_open == <<"<", "h", "2", ">">>
h2_close == <<"<", "/", "h", "2", ">">>
OBSERVATIONS == <<"O", "b", "s", "e", "r", "v", "a", "t", "i", "o", "n", "s">>

Letters ==
    {"A", "B", "C", "D", "E", "F", "G", "H", "I", "J", "K", "L", "M",
     "N", "O", "P", "Q", "R", "S", "T", "U", "V", "W", "X", "Y", "Z",
     "a", "b", "c", "d", "e", "f", "g", "h", "i", "j", "k", "l", "m",
     "n", "o", "p", "q", "r", "s", "t", "u", "v", "w", "x", "y", "z"}

\* a character of the class [A-Za-z0-9_\-]
IsNameChar(c) == c \in Letters \cup Digits \cup {"_", "-"}

\* html.unescape for the two character references of the model's documents
unescape(s) ==
    Replace(Replace(s, <<"&", "n", "b", "s", "p", ";">>, <<NBSP>>),
            <<"&", "a", "m", "p", ";">>, <<"&">>)

RECURSIVE Index(_, _, _)
\* tokens.index(x), counted from k; len(tokens) stands for ValueError
Index(tokens, x, k) ==
    IF k >= Len(tokens) THEN Len(tokens)
    ELSE IF tokens[k + 1] = x THEN k
    ELSE Index(tokens, x, k + 1)

RECURSIVE SkipOthers(_)
\* s after its leading run of characters outside the class
SkipOthers(s) ==
    IF s # <<>> /\ ~IsNameChar(Head(s)) THEN SkipOthers(Tail(s)) ELSE s

RECURSIVE ReSubEachChar(_)
\* a slip: the pattern without its "+", one underscore per character
ReSubEachChar(s) ==
    IF s = <<>> THEN <<>>
    ELSE <<IF IsNameChar(Head(s)) THEN Head(s) ELSE "_">> \o ReSubEachChar(Tail(s))

RECURSIVE ReSub(_)
\* re.sub(r"[^A-Za-z0-9_\-]+", "_", s)
ReSub(s) ==
    IF s = <<>> THEN <<>>
    ELSE IF IsNameChar(Head(s)) THEN <<Head(s)>> \o ReSub(Tail(s))
    ELSE <<"_">> \o ReSub(SkipOthers(s))

\* a slip: the name tokens always stop at "Observations", wherever it is
NameOfHeaderAlwaysCut(header) ==
    LET tokens == Split(header)
        obs_idx == Index(tokens, OBSERVATIONS, 0)
        name_tokens == Slice(tokens, 2, obs_idx)
    IN  IF Len(tokens) >= 3
        THEN IF name_tokens # <<>> THEN Join(name_tokens, <<"_">>) ELSE header
        ELSE header

\* raw_name for a heading text (already unescaped and stripped)
NameOfHeader(header) ==
    LET tokens == Split(header)
        obs_idx == Index(tokens, OBSERVATIONS, 0)
        name_tokens == IF obs_idx > 2 THEN Slice(tokens, 2, obs_idx)
                       ELSE Slice(tokens, 2, Len(tokens))
    IN  IF Len(tokens) >= 3
        THEN IF name_tokens # <<>> THEN Join(name_tokens, <<"_">>) ELSE header
        ELSE header

offset == 4

\* the search for the heading: <<start_idx, end_idx>>
FindHeading(raw) ==
    LET upper == Find(raw, H2_OPEN, 0)
        lower == Find(raw, h2_open, 0)
    IN  IF upper # -1 THEN <<upper, Find(raw, H2_CLOSE, upper + offset)>>
        ELSE IF lower # -1 THEN <<lower, Find(raw, h2_close, lower + offset)>>
        ELSE <<-1, -1>>

\* raw_name as extract_station_name builds it
RawName(raw, sid) ==
    LET h == FindHeading(raw)
    IN  IF h[1] # -1 /\ h[2] # -1
        THEN NameOfHeader(Strip(unescape(Slice(raw, h[1] + offset, h[2]))))
        ELSE sid

\* the sanitizing tail of extract_station_name
SanitizeName(candidate, sid) ==
    LET name == StripChar(ReSub(candidate), "_")
    IN  IF name # <<>> THEN name ELSE sid

extract_station_name(raw, sid) == SanitizeName(RawName(raw, sid), sid)

-----------------------------------------------------------------------------
(* Documents and station IDs given to extract_station_name *)

HeadTokens ==
    { <<"1", "5">>,
      <<"I", "-", "B">>,
      OBSERVATIONS,
      <<"&", "a", "m", "p", ";", "!">>,
      <<"u", "&", "n", "b", "s", "p", ";", "_">> }

HeadTexts ==
    { lead \o Join(toks, <<SP>>) :
        lead \in {<<>>, <<SP, LF>>}, toks \in SeqsUpTo(HeadTokens, MaxHeadTokens) }

\* <<what opens the heading, what closes it, what follows>>
HeadFrames ==
    { <<H2_OPEN, H2_CLOSE, <<>>>>,
      <<h2_open, h2_close, <<>>>>,
      <<H2_OPEN, h2_close, <<>>>>,
      <<H2_OPEN, <<>>, h2_open \o <<"a", SP, "b", SP, "c">> \o h2_close>>,
      <<h2_open, h2_close, H2_OPEN \o <<"a", SP, "b", SP, "c">> \o H2_CLOSE>>,
      <<<<>>, <<>>, <<>>>> }

NameDocs == { <<"x">> \o f[1] \o t \o f[2] \o f[3] : f \in HeadFrames, t \in HeadTexts }

StationIds == { <<"1", "5">>, <<"1", "/", "/", "2">>, <<"_", "7">>, <<"/">> }

-----------------------------------------------------------------------------
(* Specification of a call of extract_station_name *)

InitName ==
    /\ pc = "extract_station_name"
    /\ raw_html \in NameDocs
    /\ station_id \in StationIds
    /\ sep_char = "," /\ outdir = None
    /\ lines = <<>> /\ error = NoError /\ content = <<>>
    /\ NoName /\ NoProfile /\ NoFiles /\ NoBatch

CallExtractStationName ==
    /\ pc = "extract_station_name"
    /\ raw_name' = RawName(raw_html, station_id)
    /\ station_name' = SanitizeName(raw_name', station_id)
    /\ pc' = "named"
    /\ UNCHANGED <<inputVars, lines, error, content, profVars, fsVars, batchVars>>

NextName == CallExtractStationName

SpecName == InitName /\ [][NextName]_vars

-----------------------------------------------------------------------------
(* Claims about extract_station_name *)

\* some opening tag o is followed by a closing tag c
Paired(raw, o, c) ==
    \E s \in Occ(raw, o) : \E e \in Occ(raw, c) : e >= s + Len(o)

\* the document holds no heading element, in either spelling
NoHeading(raw) ==
    ~Paired(raw, H2_OPEN, H2_CLOSE) /\ ~Paired(raw, h2_open, h2_close)

\* the tags of the heading the resolver looks at: the upper-case spelling if
\* the document opens one, else the lower-case spelling
TagsOf(raw) ==
    IF Occ(raw, H2_OPEN) # {} THEN <<H2_OPEN, H2_CLOSE>> ELSE <<h2_open, h2_close>>

\* that heading is there: opened, and closed after its opening tag
Located(raw) ==
    /\ Occ(raw, TagsOf(raw)[1]) # {}
    /\ \E e \in Occ(raw, TagsOf(raw)[2]) :
          e >= Least(Occ(raw, TagsOf(raw)[1])) + Len(TagsOf(raw)[1])

\* its text: decoded and trimmed
HeadingText(raw) ==
    LET s == Least(Occ(raw, TagsOf(raw)[1])) + Len(TagsOf(raw)[1])
        e == Least({k \in Occ(raw, TagsOf(raw)[2]) : k >= s})
    IN  Strip(unescape(SubSeq(raw, s + 1, e)))

\* s with each maximal run of characters outside the class made one "_"
Collapsed(s) ==
    LET mark == [k \in 1..Len(s) |->
                    IF IsNameChar(s[k]) THEN s[k]
                    ELSE IF k = 1 \/ IsNameChar(s[k - 1]) THEN "_" ELSE ""]
    IN  SelectSeq(mark, LAMBDA c : c # "")

\* t without its leading and trailing underscores
Untrailed(t) ==
    LET keep == {k \in 1..Len(t) : t[k] # "_"}
    IN  IF keep = {} THEN <<>>
        ELSE SubSeq(t, Least(keep), CHOOSE x \in keep : \A y \in keep : y <= x)

\* only characters of the class, and no underscore at either end
CleanName(n) ==
    /\ \A k \in 1..Len(n) : IsNameChar(n[k])
    /\ n # <<>> => n[1] # "_" /\ n[Len(n)] # "_"

\* C5: the returned name holds only letters, digits, underscore and hyphen,
\* and no underscore at either end, also when it is the station ID.
C5_NameIsClean ==
    pc = "named" => CleanName(station_name)

\* (the statement of C6 as written) without a heading element the station ID
\* is returned unchanged
C6_AsClaimed ==
    (pc = "named" /\ NoHeading(raw_html)) => station_name = station_id

\* C6 (amended): without a heading element the result is the station ID
\* sanitized (each run of other characters made one underscore, underscores
\* trimmed at both ends), or the station ID itself when that is empty; a
\* station ID of allowed characters with no underscore at either end, and
\* not empty, is returned unchanged.
C6_FallbackToId ==
    (pc = "named" /\ NoHeading(raw_html)) =>
        LET clean == Untrailed(Collapsed(station_id))
        IN  /\ raw_name = station_id
            /\ station_name = IF clean # <<>> THEN clean ELSE station_id
            /\ (CleanName(station_id) /\ station_id # <<>>) => station_name = station_id

\* an opening tag whose closing tag has the other spelling, and a station ID
\* that sanitizing changes
C6_Witness ==
    /\ pc = "named"
    /\ NoHeading(raw_html)
    /\ Occ(raw_html, H2_OPEN) # {} /\ Occ(raw_html, h2_close) # {}
    /\ station_id = <<"1", "/", "/", "2">>
    /\ station_name = <<"1", "_", "2">>

\* the indices of the tokens equal to "Observations", among the indices S
ObsIn(W, S) == {j \in S : W[j] = OBSERVATIONS}

-----------------------------------------------------------------------------
(* fetch_sounding *)

cols == <<"PRES", "HGHT", "TEMP", "DWPT", "RELH", "MIXR",
          "DRCT", "SKNT", "THTA", "THTE", "THTV">>
units == <<"hPa", "m", "C", "C", "%", "g/kg", "deg", "knot", "K", "K", "K">>

\* the header written before the table: border, names, units, border
header_block(sep) ==
    <<BORDER, LF>>
        \o Join([k \in 1..Len(cols) |-> <<cols[k]>>], <<sep>>) \o <<LF>>
        \o Join([k \in 1..Len(units) |-> <<units[k]>>], <<sep>>) \o <<LF>>
        \o <<BORDER, LF>>

\* ensure_output_path: the directory it makes
base_dir(name, out) ==
    IF out = None \/ Strip(out) = <<>> THEN <<"radiosoundings", name>> ELSE <<out>>

\* ensure_output_path: the path it returns (one fixed timestamp)
outfile(sid, name, out) == base_dir(name, out) \o <<"yyyymmdd_hhmm", sid, ".txt">>

-----------------------------------------------------------------------------
(* Pages the server may send *)

Heading ==
    H2_OPEN \o <<"1", "5", SP, "L", "R", SP, "I", "-", "B", SP>> \o OBSERVATIONS \o H2_CLOSE

DataPool ==
    { <<LF, SP, "1", "0", SP, SP, "2", ".", SP, "-", ".", "5", LF>>,
      <<CR, LF, "7", ".", "5", "0", SP, "/", "/", SP, "-", ".", "5", CR, LF,
        LF, "1", "0", SP, "2", ".", SP, "-", ".", "5", SP, "/", "/", CR, LF>>,
      <<LF, SP, LF>> }

FetchDocs ==
    { <<>> } \cup
    { Heading \o START_MARKER \o data \o END_MARKER : data \in DataPool } \cup
    { START_MARKER \o data \o END_MARKER : data \in DataPool } \cup
    { Heading \o MarkerWith(<<CR, LF>>, <<CR, LF>>, <<CR, LF>>) \o data \o END_MARKER :
        data \in DataPool } \cup
    { Heading \o START_MARKER \o data : data \in DataPool } \cup
    { Heading \o END_MARKER \o START_MARKER \o data : data \in DataPool } \cup
    { Heading \o data \o END_MARKER : data \in DataPool }

OutDirs == { None, <<SP>>, <<"o", "u", "t">> }

-----------------------------------------------------------------------------
(* Specification of a call of fetch_sounding *)

InitFetch ==
    /\ pc = "download"
    /\ raw_html = <<>>
    /\ station_id \in { <<"1", "5">>, <<"1", "/", "/", "2">> }
    /\ sep_char \in Separators
    /\ outdir \in OutDirs
    /\ lines = <<>> /\ error = NoError /\ content = <<>>
    /\ NoName /\ NoProfile /\ NoFiles /\ NoBatch

\* download_sounding_text returns a page
FetchDownload ==
    /\ pc = "download"
    /\ \E doc \in FetchDocs : raw_html' = doc
    /\ pc' = "extract"
    /\ UNCHANGED <<station_id, sep_char, outdir, lines, error, content, nameVars,
                   profVars, fsVars, batchVars>>

\* download_sounding_text raises (urlopen fails)
FetchDownloadFails ==
    /\ pc = "download"
    /\ error' = "URLError"
    /\ pc' = "raised"
    /\ UNCHANGED <<inputVars, lines, content, nameVars, profVars, fsVars, batchVars>>

\* a slip: the output directory is made before the block is extracted
FetchExtractMkdirFirst ==
    /\ pc = "extract"
    /\ raw_name' = RawName(raw_html, station_id)
    /\ station_name' = SanitizeName(raw_name', station_id)
    /\ dirs' = dirs \cup {base_dir(station_name', outdir)}
    /\ LET r == extract_block(raw_html)
       IN  IF r.ok
           THEN /\ lines' = r.val
                /\ content' = normalize_lines(r.val, sep_char)
                /\ pc' = "ensure_output_path"
                /\ UNCHANGED error
           ELSE /\ error' = r.err
                /\ pc' = "raised"
                /\ UNCHANGED <<lines, content>>
    /\ UNCHANGED <<inputVars, profVars, files, batchVars>>

\* extract_station_name, extract_block, normalize_lines
FetchExtract ==
    /\ pc = "extract"
    /\ raw_name' = RawName(raw_html, station_id)
    /\ station_name' = SanitizeName(raw_name', station_id)
    /\ LET r == extract_block(raw_html)
       IN  IF r.ok
           THEN /\ lines' = r.val
                /\ content' = normalize_lines(r.val, sep_char)
                /\ pc' = "ensure_output_path"
                /\ UNCHANGED error
           ELSE /\ error' = r.err
                /\ pc' = "raised"
                /\ UNCHANGED <<lines, content>>
    /\ UNCHANGED <<inputVars, profVars, fsVars, batchVars>>

\* ensure_output_path: os.makedirs(base_dir, exist_ok=True)
FetchEnsureOutputPath ==
    /\ pc = "ensure_output_path"
    /\ dirs' = dirs \cup {base_dir(station_name, outdir)}
    /\ pc' = "write"
    /\ UNCHANGED <<inputVars, lines, error, content, nameVars, profVars, files,
                   batchVars>>

\* os.makedirs raises
FetchEnsureOutputPathFails ==
    /\ pc = "ensure_output_path"
    /\ error' = "OSError"
    /\ pc' = "raised"
    /\ UNCHANGED <<inputVars, lines, content, nameVars, profVars, fsVars, batchVars>>

\* open(outfile, "w"), f.write(header_block), f.write(content)
FetchWrite ==
    /\ pc = "write"
    /\ files' = {f \in files : f[1] # outfile(station_id, station_name, outdir)}
                  \cup {<<outfile(station_id, station_name, outdir),
                          header_block(sep_char) \o content>>}
    /\ pc' = "parse"
    /\ UNCHANGED <<inputVars, lines, error, content, nameVars, profVars, dirs,
                   batchVars>>

\* open raises
FetchWriteFails ==
    /\ pc = "write"
    /\ error' = "OSError"
    /\ pc' = "raised"
    /\ UNCHANGED <<inputVars, lines, content, nameVars, profVars, fsVars, batchVars>>

\* parse_profiles(lines) and the return
FetchReturn ==
    /\ pc = "parse"
    /\ LET out == parse_profiles([p |-> <<>>, z |-> <<>>, T |-> <<>>], lines)
       IN  /\ pressures' = out.p
           /\ heights' = out.z
           /\ temps' = out.T
    /\ idx' = Len(lines)
    /\ pc' = "returned"
    /\ UNCHANGED <<inputVars, lines, error, content, nameVars, fsVars, batchVars>>

NextFetch ==
    \/ FetchDownload
    \/ FetchDownloadFails
    \/ FetchExtract
    \/ FetchEnsureOutputPath
    \/ FetchEnsureOutputPathFails
    \/ FetchWrite
    \/ FetchWriteFails
    \/ FetchReturn

SpecFetch == InitFetch /\ [][NextFetch]_vars

-----------------------------------------------------------------------------
(* Claims about fetch_sounding *)

\* C9: when extract_block fails, its error reaches the caller of
\* fetch_sounding as it is, and no directory was made and no file written:
\* both happen only after the name, the block and the normalized text are
\* there.
C9_NoPartialOutput ==
    /\ (pc \notin {"download", "extract"} /\ error # "URLError"
          /\ ~HasBlock(UText(raw_html))) =>
            /\ pc = "raised"
            /\ error = IF Occ(UText(raw_html), START_MARKER) = {}
                       THEN HeaderNotFound ELSE EndNotFound
            /\ dirs = {} /\ files = {}
    /\ (dirs # {} \/ files # {}) =>
            /\ HasBlock(UText(raw_html))
            /\ station_name # <<>>
            /\ content # <<>>

\* a page with a heading and a header marker but no end marker after it: the
\* name was resolved, the call raised, nothing was made
C9_Witness ==
    /\ pc = "raised"
    /\ error = EndNotFound
    /\ Occ(raw_html, END_MARKER) # {}
    /\ station_name = <<"I", "-", "B">>
    /\ dirs = {} /\ files = {}

\* the end-to-end shape: the file holds the 4-line header and the table, and
\* a line with a placeholder is in the text and not in the profile
FetchedWithPlaceholder ==
    /\ pc = "returned"
    /\ Len(lines) = 3
    /\ Len(pressures) = 1
    /\ Cardinality(files) = 1

-----------------------------------------------------------------------------
(* Batch driver: parse_hours, daterange, main *)

\* token.isdigit()
isdigit(t) == t # <<>> /\ \A k \in 1..Len(t) : t[k] \in Digits

\* sorted(set(hs)) for a sequence of integers
SortedSet(hs) ==
    LET S == {hs[k] : k \in 1..Len(hs)}
    IN  [j \in 1..Cardinality(S) |->
            CHOOSE x \in S : Cardinality({y \in S : y < x}) = j - 1]

RECURSIVE HoursLoop(_, _)
\* the loop of parse_hours over hours_str.split(","), hs the hours so far
HoursLoop(tokens, hs) ==
    IF tokens = <<>> THEN Ok(hs)
    ELSE LET stripped == Strip(Head(tokens))
             token == IF Len(stripped) = 1 THEN <<"0">> \o stripped ELSE stripped
         IN  IF stripped = <<>> THEN HoursLoop(Tail(tokens), hs)
             ELSE IF Len(token) # 2 \/ ~isdigit(token) THEN Raise("Invalid hour token")
             ELSE IF ~(0 <= IntOf(token) /\ IntOf(token) <= 23)
                  THEN Raise("Hour out of range")
             ELSE HoursLoop(Tail(tokens), Append(hs, IntOf(token)))

\* a slip: the hours are returned as typed, not sorted and not de-duplicated
parse_hours_AsTyped(hours_str) ==
    LET r == HoursLoop(SplitOn(hours_str, ","), <<>>)
    IN  IF ~r.ok THEN r
        ELSE IF r.val = <<>> THEN Raise("No valid hours parsed.")
        ELSE Ok(r.val)

parse_hours(hours_str) ==
    LET r == HoursLoop(SplitOn(hours_str, ","), <<>>)
    IN  IF ~r.ok THEN r
        ELSE IF r.val = <<>> THEN Raise("No valid hours parsed.")
        ELSE Ok(SortedSet(r.val))

\* daterange(start_date, end_date) as a list; dates are day numbers
daterange(start_date, end_date) ==
    IF end_date < start_date THEN Raise("End date must be on or after start date.")
    ELSE Ok([i \in 1..(end_date - start_date + 1) |-> start_date + (i - 1)])

\* a slip: break instead of continue, the loops end at the first failure
AfterFailureBreak(lp, ndays, nhours) == [i |-> ndays, j |-> 0]

\* where the two for loops stand after one more hour was handled
AfterRequest(lp, ndays, nhours) ==
    IF lp.j + 1 < nhours THEN [i |-> lp.i, j |-> lp.j + 1]
    ELSE [i |-> lp.i + 1, j |-> 0]

\* where they stand after the except branch's continue
AfterFailure(lp, ndays, nhours) == AfterRequest(lp, ndays, nhours)

-----------------------------------------------------------------------------
(* Command lines given to the batch driver *)

\* a date argument: <<n>> is a well-formed date, day number n; <<>> is a
\* string in none of the three formats
BadDate == <<>>

parse_date_only(date_str) ==
    IF date_str = BadDate THEN Raise("Could not parse date") ELSE Ok(date_str[1])

HourTokens ==
    { <<"0">>, <<"0", "0">>, <<"1", "2">>, <<SP, "6">>, <<>>,
      <<"2", "4">>, <<"1", "x">> }

HourStrs == { Join(ts, <<",">>) : ts \in SeqsUpTo(HourTokens, MaxHourTokens) }

DateArgs == {<<n>> : n \in 0..MaxDay} \cup {BadDate}

-----------------------------------------------------------------------------
(* Specification of a run of the batch driver's main *)

InitBatch ==
    /\ pc = "main"
    /\ args \in [start_date : DateArgs, end_date : DateArgs, hours_str : HourStrs]
    /\ hours = <<>> /\ loop = <<>>
    /\ calls = <<>> /\ failures = <<>> /\ ret = NoRet
    /\ raw_html = <<>> /\ station_id = <<"1", "5">> /\ sep_char = "," /\ outdir = None
    /\ lines = <<>> /\ error = NoError /\ content = <<>>
    /\ NoName /\ NoProfile /\ NoFiles

\* parse_date_only or parse_hours raises ValueError: return 1
MainBadArguments ==
    /\ pc = "main"
    /\ \/ ~parse_date_only(args.start_date).ok
       \/ ~parse_date_only(args.end_date).ok
       \/ ~parse_hours(args.hours_str).ok
    /\ ret' = 1
    /\ pc' = "usage_error"
    /\ UNCHANGED <<inputVars, lines, error, content, nameVars, profVars, fsVars,
                   args, hours, loop, calls, failures>>

\* the arguments parse: failures = [] and the loops start
MainStart ==
    /\ pc = "main"
    /\ parse_date_only(args.start_date).ok
    /\ parse_date_only(args.end_date).ok
    /\ parse_hours(args.hours_str).ok
    /\ hours' = parse_hours(args.hours_str).val
    /\ loop' = [i |-> 0, j |-> 0]
    /\ pc' = "loop"
    /\ UNCHANGED <<inputVars, lines, error, content, nameVars, profVars, fsVars,
                   args, calls, failures, ret>>

\* main's start_date and end_date
start_date == parse_date_only(args.start_date).val
end_date == parse_date_only(args.end_date).val

\* daterange raises ValueError, which main does not catch
MainDateRangeRaises ==
    /\ pc = "loop"
    /\ ~daterange(start_date, end_date).ok
    /\ error' = daterange(start_date, end_date).err
    /\ pc' = "raised"
    /\ UNCHANGED <<inputVars, lines, content, nameVars, profVars, fsVars, batchVars>>

\* the request the loops are at
Current ==
    [date |-> daterange(start_date, end_date).val[loop.i + 1],
     hour |-> hours[loop.j + 1]]

InLoop ==
    /\ pc = "loop"
    /\ daterange(start_date, end_date).ok
    /\ loop.i < Len(daterange(start_date, end_date).val)

\* fetch_sounding returns
MainRequestOk ==
    /\ InLoop
    /\ calls' = Append(calls, [when |-> Current, ok |-> TRUE])
    /\ loop' = AfterRequest(loop, Len(daterange(start_date, end_date).val),
                            Len(hours))
    /\ UNCHANGED <<pc, inputVars, lines, error, content, nameVars, profVars, fsVars,
                   args, hours, failures, ret>>

\* fetch_sounding raises an Exception: recorded, and the loop continues
MainRequestFails ==
    /\ InLoop
    /\ \E e \in {HeaderNotFound, "URLError"} :
          /\ calls' = Append(calls, [when |-> Current, ok |-> FALSE])
          /\ failures' = Append(failures, <<Current, e>>)
    /\ loop' = AfterFailure(loop, Len(daterange(start_date, end_date).val),
                            Len(hours))
    /\ UNCHANGED <<pc, inputVars, lines, error, content, nameVars, profVars, fsVars,
                   args, hours, ret>>

\* the loops are over: the summary is printed and main returns 0
MainReturn ==
    /\ pc = "loop"
    /\ daterange(start_date, end_date).ok
    /\ loop.i >= Len(daterange(start_date, end_date).val)
    /\ ret' = 0
    /\ pc' = "done"
    /\ UNCHANGED <<inputVars, lines, error, content, nameVars, profVars, fsVars,
                   args, hours, loop, calls, failures>>

NextBatch ==
    \/ MainBadArguments
    \/ MainStart
    \/ MainDateRangeRaises
    \/ MainRequestOk
    \/ MainRequestFails
    \/ MainReturn

SpecBatch == InitBatch /\ [][NextBatch]_vars

-----------------------------------------------------------------------------
(* Claims about the batch driver *)

\* the hours a comma separated list names: each piece, trimmed, is one or two
\* digits
HourSetOf(str) ==
    LET pieces == SplitOn(str, ",")
    IN  { v \in 0..23 :
            \E k \in 1..Len(pieces) :
                LET t == Strip(pieces[k])
                IN  \/ Len(t) = 1 /\ t[1] \in Digits /\ v = DigitVal(t[1])
                    \/ /\ Len(t) = 2 /\ t[1] \in Digits /\ t[2] \in Digits
                       /\ v = 10 * DigitVal(t[1]) + DigitVal(t[2]) }

\* (date, hour) before (date, hour)
Before(a, b) == a.date < b.date \/ (a.date = b.date /\ a.hour < b.hour)

\* every (date, hour) of the range and the hour set, ascending
Requests(first, last, hs) ==
    LET all == {[date |-> d, hour |-> h] : d \in first..last, h \in hs}
    IN  [k \in 1..Cardinality(all) |->
            CHOOSE r \in all : Cardinality({q \in all : Before(q, r)}) = k - 1]

\* C10: with start date <= end date and the hours parsed, main calls
\* fetch_sounding once for each (date, hour) of the range and the
\* de-duplicated hours, dates ascending and hours ascending within a date; a
\* failed request is in the failure list, is not tried again and stops no
\* later request; main is never stuck, and returns 0 after the last request.
C10_EveryRequestOnce ==
    (pc \in {"loop", "done"} /\ args.start_date[1] <= args.end_date[1]) =>
        LET want == Requests(args.start_date[1], args.end_date[1],
                             HourSetOf(args.hours_str))
            failed == SelectSeq(calls, LAMBDA c : ~c.ok)
        IN  /\ Len(calls) <= Len(want)
            /\ \A k \in 1..Len(calls) : calls[k].when = want[k]
            /\ Len(failures) = Len(failed)
            /\ \A k \in 1..Len(failed) : failures[k][1] = failed[k].when
            /\ pc = "done" => Len(calls) = Len(want) /\ ret = 0
            /\ pc = "loop" => ENABLED NextBatch
            /\ (pc = "loop" /\ Len(calls) < Len(want)) => ENABLED MainRequestOk

\* two days and the hours "12, 6" (typed descending): four requests, the
\* first failed and the later ones were still made
C10_Witness ==
    /\ pc = "done"
    /\ ret = 0
    /\ args.hours_str = <<"1", "2", ",", SP, "6">>
    /\ Len(calls) = 4
    /\ ~calls[1].ok /\ calls[2].ok /\ ~calls[3].ok /\ calls[4].ok
    /\ Len(failures) = 2

=============================================================================
